---- MODULE Spec2Model ----
(***************************************************************************)
(* Model of the pricing / simulation engine of src/bet_calculator.py.      *)
(*                                                                         *)
(* Python floats are binary floating-point numbers.  They are modelled as  *)
(* records [m, e] standing for m * 2^e with a significand of Precision     *)
(* bits (CPython: 53) and round-half-to-even after every operation; the    *)
(* exponent is unbounded (no overflow, no underflow).                      *)
(***************************************************************************)
EXTENDS Integers, Sequences, FiniteSets, TLC

\* Width of the significand of the modelled floats, in bits.
Precision == 12

Abs(n) == IF n < 0 THEN -n ELSE n
Sgn(n) == IF n < 0 THEN -1 ELSE IF n = 0 THEN 0 ELSE 1

RECURSIVE Pow2(_)
Pow2(n) == IF n <= 0 THEN 1 ELSE 2 * Pow2(n - 1)

RECURSIVE BitLen(_)
BitLen(n) == IF n = 0 THEN 0 ELSE 1 + BitLen(n \div 2)

RECURSIVE ISqrtIn(_, _, _)
ISqrtIn(n, lo, hi) ==
    IF lo >= hi THEN lo
    ELSE LET mid == (lo + hi + 1) \div 2
         IN IF mid * mid <= n THEN ISqrtIn(n, mid, hi) ELSE ISqrtIn(n, lo, mid - 1)

\* floor of the square root of n, 0 <= n < 2^30
ISqrt(n) == ISqrtIn(n, 0, 32767)

Zero == [m |-> 0, e |-> 0]

\* The float nearest to n * 2^e (ties to even).
Round(n, e) ==
    LET a == Abs(n)
        k == BitLen(a) - Precision
    IN IF n = 0 THEN Zero
       ELSE IF k <= 0 THEN [m |-> n * Pow2(-k), e |-> e + k]
       ELSE LET q    == a \div Pow2(k)
                r    == a % Pow2(k)
                half == Pow2(k - 1)
                q2   == IF r > half \/ (r = half /\ q % 2 = 1) THEN q + 1 ELSE q
            IN IF q2 = Pow2(Precision)
               THEN [m |-> Sgn(n) * Pow2(Precision - 1), e |-> e + k + 1]
               ELSE [m |-> Sgn(n) * q2, e |-> e + k]

\* An integer literal or int operand converted to float.
F(n) == Round(n, 0)

FNeg(a) == [m |-> -a.m, e |-> a.e]

FAdd(a, b) ==
    IF a.m = 0 THEN b
    ELSE IF b.m = 0 THEN a
    ELSE LET hi == IF a.e >= b.e THEN a ELSE b
             lo == IF a.e >= b.e THEN b ELSE a
             d  == hi.e - lo.e
         IN IF d > Precision + 2 THEN hi
            ELSE Round(hi.m * Pow2(d) + lo.m, lo.e)

FSub(a, b) == FAdd(a, FNeg(b))

FMul(a, b) == Round(a.m * b.m, a.e + b.e)

\* a / b for b # 0
FDiv(a, b) ==
    LET num    == Abs(a.m) * Pow2(Precision + 2)
        den    == Abs(b.m)
        q      == num \div den
        sticky == IF num % den = 0 THEN 0 ELSE 1
    IN Round(Sgn(a.m) * Sgn(b.m) * (2 * q + sticky), a.e - b.e - Precision - 3)

\* math.sqrt(a) for a >= 0
FSqrt(a) ==
    LET s      == IF (a.e - Precision) % 2 = 0 THEN Precision + 2 ELSE Precision + 3
        n      == a.m * Pow2(s)
        r      == ISqrt(n)
        sticky == IF r * r = n THEN 0 ELSE 1
    IN IF a.m = 0 THEN Zero
       ELSE Round(2 * r + sticky, ((a.e - s) \div 2) - 1)

FLt(a, b) == FSub(a, b).m < 0
FLe(a, b) == FSub(a, b).m <= 0
\* min() that returns its first argument
FMin_first(a, b) == a

FMin(a, b) == IF FLt(b, a) THEN b ELSE a

(***************************************************************************)
(* src/bet_calculator.py: constants and curve math                         *)
(***************************************************************************)
INITIAL_MC == F(100000)
TAX_RATE == FDiv(F(5), F(100))
\* BET_POOL_PERCENTAGE with no tax taken off
BET_POOL_PERCENTAGE_untaxed == F(1)

BET_POOL_PERCENTAGE == FSub(F(1), TAX_RATE)
max_buys == 10000

totalliquidity(market_cap) ==
    FMul(F(100000), FSqrt(FDiv(market_cap, F(100000))))

\* availableliquidity with the baseline test written as a strict comparison
availableliquidity_strict(market_cap) ==
    IF FLt(market_cap, F(100000)) THEN Zero
    ELSE FSub(totalliquidity(market_cap), F(10000))

availableliquidity(market_cap) ==
    IF FLe(market_cap, F(100000)) THEN Zero
    ELSE FSub(totalliquidity(market_cap), F(10000))

mc_increase_of(current_mc, post_tax_buy) ==
    LET mc_ratio           == FDiv(current_mc, F(100000))
        mc_increase_factor == FMul(F(20), FSqrt(mc_ratio))
    IN FMul(post_tax_buy, mc_increase_factor)

\* calculate_new_market_cap that drops the increase
calculate_new_market_cap_flat(current_mc, post_tax_buy) == current_mc

\* calculate_new_market_cap that subtracts the increase
calculate_new_market_cap_minus(current_mc, post_tax_buy) ==
    FSub(current_mc, mc_increase_of(current_mc, post_tax_buy))

\* calculate_new_market_cap that takes the buy out of the cap
calculate_new_market_cap_shrink(current_mc, post_tax_buy) ==
    FSub(current_mc, post_tax_buy)

calculate_new_market_cap(current_mc, post_tax_buy) ==
    FAdd(current_mc, mc_increase_of(current_mc, post_tax_buy))

\* Python's sum(): left to right, starting from 0
RECURSIVE FSumFrom(_, _, _)
FSumFrom(acc, s, i) ==
    IF i > Len(s) THEN acc ELSE FSumFrom(FAdd(acc, s[i]), s, i + 1)

FSum(s) == FSumFrom(Zero, s, 1)

(***************************************************************************)
(* Inputs explored by the model                                            *)
(***************************************************************************)
\* The float 2^k.
FPow2(k) == [m |-> Pow2(Precision - 1), e |-> k - Precision + 1]

\* user_bet_amount: 1, 3, 13, 100 and a stake far above the standard buy
Stakes == {F(1), F(3), F(13), F(100), FPow2(Precision + 9)}
\* user_buy_mc, in thousands (the simulator scales it by 1000)
EntryCaps == {F(10), F(100), F(150), F(1000)}
\* final market caps of a side
FinalCaps == {F(50000), F(100000), F(104000), F(200000)}
TeamIds == {1, 2}
\* arguments of the curve functions called on their own
CurveCaps == {F(1), F(50000), F(100000), F(100032), F(200000)}
CurveStakes == {FPow2(-10), FPow2(-9), F(1), F(95)}
\* number of calls of the curve functions that are recorded
MaxCalls == 2

VARIABLES
    pc,                      \* position of the call in progress
    caller,                  \* which function was called from outside
    user_bet_amount, user_buy_mc, team1_final_mc, team2_final_mc,
    winning_team_id,         \* arguments of calculate_rewards
    final_mc, standard_buy_size,      \* arguments of simulate_market_cap_growth
    current_mc, buy_number, user_buy_value_at_close, user_buy_included,
    all_buy_values_at_close, simulation_data,   \* locals of the simulator
    sim,                     \* what simulate_market_cap_growth returned
    rewards,                 \* what calculate_rewards returned
    executed,                \* history: every standard buy the loop executed
    curve_calls,             \* history: calls of the curve functions
    reward_calls,            \* history: calls of calculate_rewards that returned
    events,                  \* helper.py: the events with their teams
    users,                   \* helper.py: the users in order of insertion
    finalized_team_market_caps,   \* helper.py: last cap per team id
    chain,                   \* the contract's record of each event
    resolved_log,            \* EventResolved logs the listener has not read
    rewards_tx,              \* setRewards transactions submitted
    sr,                      \* the set_rewards call in progress, or its result
    passes,                  \* history: number of set_rewards calls made
    block_number,            \* w3.eth.block_number, the head of the chain
    bet_logs,                \* the BetPlaced logs of the contract, in order
    listener,                \* listen_for_bet_events: its locals and position
    startup,                 \* startup_event: its position and the aggregation
    resolve_call             \* the last call of resolve_event and what it returned

vars == <<pc, caller, user_bet_amount, user_buy_mc, team1_final_mc,
          team2_final_mc, winning_team_id, final_mc, standard_buy_size,
          current_mc, buy_number, user_buy_value_at_close, user_buy_included,
          all_buy_values_at_close, simulation_data, sim, rewards, executed,
          curve_calls, reward_calls, events, users, finalized_team_market_caps, chain,
          resolved_log, rewards_tx, sr, passes, block_number, bet_logs,
          listener, startup, resolve_call>>

listenvars == <<block_number, bet_logs, listener, startup>>

ledgervars == <<events, users, finalized_team_market_caps, chain,
                resolved_log, rewards_tx, sr, passes, resolve_call>>

None == [none |-> TRUE]

\* the pair a call of helper.py returns: transaction hash and message
Outcome(tx, message) == [tx_hash |-> tx, message |-> message]

\* user_buy_mc_value that divides 1000 by the entry cap
user_buy_mc_value_divided == FDiv(F(1000), user_buy_mc)

user_buy_mc_value == FMul(user_buy_mc, F(1000))
post_tax_standard_buy == FMul(standard_buy_size, BET_POOL_PERCENTAGE)
user_post_tax_buy == FMul(user_bet_amount, BET_POOL_PERCENTAGE)

winning_team_final_mc(t1, t2, w) == IF w = 1 THEN t1 ELSE t2

\* rewards_percentage with the quotient inverted
rewards_percentage_inverted(value, total_sum_value) ==
    FMul(FDiv(total_sum_value, value), F(100))

\* line 93 and line 98
rewards_percentage(value, total_sum_value) ==
    FMul(FDiv(value, total_sum_value), F(100))

\* losing_team_liquidity that takes the winning side's liquidity
losing_team_liquidity_swapped(t1, t2, w) ==
    IF w = 1 THEN availableliquidity(t1) ELSE availableliquidity(t2)

losing_team_liquidity(t1, t2, w) ==
    IF w = 1 THEN availableliquidity(t2) ELSE availableliquidity(t1)

(***************************************************************************)
(* src/helper.py, src/models.py, src/constants.py: the state of the        *)
(* backend. Amounts are the integers read from the chain; caps are floats. *)
(***************************************************************************)
\* models.py line 2
MARKET_CAP == 100000

\* constants.py: the ids of the events, each with teams 1 and 2
EventIds == {1, 2}

\* inputs: the event and team ids a bet log can carry (9 and 3 are unknown
\* to the backend), the senders, and the amounts (gross, tax, net)
BetEventIds == EventIds \cup {9}
BetTeamIds == TeamIds \cup {3}
Addresses == {"0xA", "0xB"}
BetAmounts ==
    {[amount |-> 0, tax_amount |-> 0, net_bet_amount |-> 0],
     [amount |-> 100, tax_amount |-> 5, net_bet_amount |-> 95]}

\* inputs: the events that get resolved, and the winner indexes passed
ResolvableEvents == {1}
WinnerIndexes == {0, 1}

\* bounds: bets recorded, and calls of set_rewards
MaxBets == 2
MaxPasses == 1

\* models.py lines 4-24: an Event with its two Teams
NewEvent ==
    [market_cap |-> [t \in TeamIds |-> F(MARKET_CAP)],
     status |-> "pending", is_active |-> TRUE, is_resolved |-> FALSE,
     total_bet_amount |-> 0, winner_index |-> None]

\* set_rewards before it is called
SetRewardsIdle ==
    [pc |-> "idle", event_id |-> 0, winning_team_id |-> 0,
     losing_team_liquidity |-> 0, i |-> 0,
     winning_users |-> <<>>, user_rewards |-> <<>>, result |-> None]

\* helper.py lines 14-16 and constants.py; the contract has no event
\* resolved
LedgerInit ==
    /\ events = [e \in EventIds |-> NewEvent]
    /\ users = <<>>
    /\ finalized_team_market_caps = [t \in {} |-> Zero]
    /\ chain = [e \in EventIds |-> [is_resolved |-> FALSE, winningTeamId |-> 0]]
    /\ resolved_log = {}
    /\ rewards_tx = <<>>
    /\ sr = SetRewardsIdle
    /\ passes = 0
    /\ resolve_call = None

\* listen_for_bet_events before it is started
ListenerOff ==
    [pc |-> "off", first_block |-> 0, last_processed_block |-> 0,
     bet_events |-> <<>>, handled |-> <<>>]

\* startup_event before it runs
StartupOff ==
    [pc |-> "off", current_block |-> 0, bet_events |-> <<>>, applied |-> <<>>]

\* the chain before any block of the model is mined, and no listener
ListenerInit ==
    /\ block_number = 0
    /\ bet_logs = <<>>
    /\ listener = ListenerOff
    /\ startup = StartupOff

Init ==
    /\ LedgerInit
    /\ pc = "idle"
    /\ caller = "none"
    /\ user_bet_amount = Zero /\ user_buy_mc = Zero
    /\ team1_final_mc = Zero /\ team2_final_mc = Zero
    /\ winning_team_id = 0
    /\ final_mc = Zero /\ standard_buy_size = Zero
    /\ current_mc = Zero /\ buy_number = 0
    /\ user_buy_value_at_close = Zero /\ user_buy_included = FALSE
    /\ all_buy_values_at_close = <<>> /\ simulation_data = <<>>
    /\ sim = None /\ rewards = None
    /\ executed = <<>>
    /\ curve_calls = <<>>
    /\ reward_calls = <<>>
    /\ ListenerInit

\* EnterSimulation that keeps the list of values of the call before
EnterSimulation_stale ==
    /\ current_mc' = INITIAL_MC
    /\ buy_number' = 1
    /\ user_buy_value_at_close' = Zero
    /\ user_buy_included' = FALSE
    /\ all_buy_values_at_close' = all_buy_values_at_close
    /\ simulation_data' = <<>>
    /\ sim' = None
    /\ rewards' = None
    /\ executed' = <<>>
    /\ pc' = "loop"
    /\ UNCHANGED <<curve_calls, reward_calls, ledgervars, listenvars>>

\* simulate_market_cap_growth, lines 46-56: the locals before the loop
EnterSimulation ==
    /\ current_mc' = INITIAL_MC
    /\ buy_number' = 1
    /\ user_buy_value_at_close' = Zero
    /\ user_buy_included' = FALSE
    /\ all_buy_values_at_close' = <<>>
    /\ simulation_data' = <<>>
    /\ sim' = None
    /\ rewards' = None
    /\ executed' = <<>>
    /\ pc' = "loop"
    /\ UNCHANGED <<curve_calls, reward_calls, ledgervars, listenvars>>

\* calculate_rewards(...), lines 112-119: up to the call of the simulator
CallRewards ==
    /\ pc = "idle"
    /\ \E s \in Stakes, b \in EntryCaps, t1 \in FinalCaps, t2 \in FinalCaps,
          w \in TeamIds :
            /\ user_bet_amount' = s
            /\ user_buy_mc' = b
            /\ team1_final_mc' = t1
            /\ team2_final_mc' = t2
            /\ winning_team_id' = w
            /\ final_mc' = winning_team_final_mc(t1, t2, w)
    /\ standard_buy_size' = F(100)
    /\ caller' = "calculate_rewards"
    /\ EnterSimulation

\* simulate_market_cap_growth(...) called on its own
CallSimulate ==
    /\ pc = "idle"
    /\ \E s \in Stakes, b \in EntryCaps, f \in FinalCaps :
            /\ user_bet_amount' = s
            /\ user_buy_mc' = b
            /\ final_mc' = f
    /\ standard_buy_size' = F(100)
    /\ team1_final_mc' = Zero /\ team2_final_mc' = Zero
    /\ winning_team_id' = 0
    /\ caller' = "simulate_market_cap_growth"
    /\ EnterSimulation

\* LoopCondition that still buys when the current cap equals the final cap
LoopCondition_inclusive ==
    FLe(current_mc, final_mc) /\ buy_number <= max_buys

\* LoopCondition that lets one more buy through
LoopCondition_onemore ==
    FLt(current_mc, final_mc) /\ buy_number <= max_buys + 1

\* the condition of the while loop, line 58
LoopCondition == FLt(current_mc, final_mc) /\ buy_number <= max_buys

\* the body of the while loop, lines 59-85, as a function of the locals l
\* and of the arguments final_mc f, user_bet_amount s, user_buy_mc b and
\* standard_buy_size z of the call
loop_body(l, f, s, b, z) ==
    LET post_tax   == FMul(z, BET_POOL_PERCENTAGE)
        reached    == ~user_buy_included
                         /\ FLe(FMul(b, F(1000)), l.current_mc)
        opening_mc == l.current_mc
        new_mc     == calculate_new_market_cap(opening_mc, post_tax)
        mc_increase == FSub(new_mc, opening_mc)
        buy_value_at_close == FDiv(FMul(post_tax, f), opening_mc)
        row == [buy_number |-> l.buy_number,
                pre_tax_buy |-> z,
                post_tax_buy |-> post_tax,
                openingMC |-> opening_mc,
                closingMC |-> new_mc,
                mcIncrease |-> mc_increase,
                buyValueAtClose |-> buy_value_at_close]
    IN [current_mc |-> new_mc,
        buy_number |-> l.buy_number + 1,
        user_buy_value_at_close |->
            IF reached
            THEN FDiv(FMul(FMul(s, BET_POOL_PERCENTAGE), f), l.current_mc)
            ELSE l.user_buy_value_at_close,
        all_buy_values_at_close |->
            Append(IF reached THEN <<>> ELSE l.all_buy_values_at_close,
                   buy_value_at_close),
        simulation_data |->
            IF l.buy_number <= 10 \/ l.buy_number % 10 = 0
            THEN Append(l.simulation_data, row)
            ELSE l.simulation_data,
        executed |-> Append(l.executed,
                            [openingMC |-> opening_mc, closingMC |-> new_mc,
                             buyValueAtClose |-> buy_value_at_close])]

\* one iteration of the while loop, lines 58-85
LoopStep ==
    /\ pc = "loop"
    /\ LoopCondition
    /\ LET n == loop_body(
                 [current_mc |-> current_mc, buy_number |-> buy_number,
                  user_buy_value_at_close |-> user_buy_value_at_close,
                  all_buy_values_at_close |-> all_buy_values_at_close,
                  simulation_data |-> simulation_data,
                  executed |-> executed],
                 final_mc, user_bet_amount, user_buy_mc, standard_buy_size)
       IN /\ user_buy_value_at_close' = n.user_buy_value_at_close
          /\ all_buy_values_at_close' = n.all_buy_values_at_close
          /\ simulation_data' = n.simulation_data
          /\ executed' = n.executed
          /\ current_mc' = n.current_mc
          /\ buy_number' = n.buy_number
    /\ UNCHANGED <<pc, caller, user_bet_amount, user_buy_mc, team1_final_mc,
                   team2_final_mc, winning_team_id, final_mc, standard_buy_size,
                   user_buy_included, sim, rewards, curve_calls, reward_calls,
                   ledgervars, listenvars>>

\* the divisors of lines 89 and 93 (and 98): min(user_buy_mc_value, final_mc)
\* and total_sum_value; Python raises ZeroDivisionError when one is zero
ZeroDivisionAfterLoop ==
    IF ~user_buy_included /\ FMin(user_buy_mc_value, final_mc) = Zero
    THEN TRUE
    ELSE
       LET user_value ==
               IF ~user_buy_included
               THEN FDiv(FMul(user_post_tax_buy, final_mc),
                         FMin(user_buy_mc_value, final_mc))
               ELSE user_buy_value_at_close
           values ==
               IF ~user_buy_included
               THEN Append(all_buy_values_at_close, user_value)
               ELSE all_buy_values_at_close
       IN FSum(values) = Zero

\* after the loop, lines 87-93, when a division raises
SimulateRaise ==
    /\ pc = "loop"
    /\ ~LoopCondition
    /\ ZeroDivisionAfterLoop
    /\ pc' = "ZeroDivisionError"
    /\ UNCHANGED <<caller, user_bet_amount, user_buy_mc, team1_final_mc,
                   team2_final_mc, winning_team_id, final_mc, standard_buy_size,
                   current_mc, buy_number, user_buy_value_at_close,
                   user_buy_included, all_buy_values_at_close, simulation_data,
                   sim, rewards, executed, curve_calls, reward_calls,
                   ledgervars, listenvars>>

\* after the loop, lines 87-100
SimulateReturn ==
    /\ pc = "loop"
    /\ ~LoopCondition
    /\ ~ZeroDivisionAfterLoop
    /\ LET user_value ==
               IF ~user_buy_included
               THEN FDiv(FMul(user_post_tax_buy, final_mc),
                         FMin(user_buy_mc_value, final_mc))
               ELSE user_buy_value_at_close
           values ==
               IF ~user_buy_included
               THEN Append(all_buy_values_at_close, user_value)
               ELSE all_buy_values_at_close
           total_sum_value == FSum(values)
           user_rewards_percentage ==
               rewards_percentage(user_value, total_sum_value)
           data == [i \in 1..Len(simulation_data) |->
                      [buy_number |-> simulation_data[i].buy_number,
                       pre_tax_buy |-> simulation_data[i].pre_tax_buy,
                       post_tax_buy |-> simulation_data[i].post_tax_buy,
                       openingMC |-> simulation_data[i].openingMC,
                       closingMC |-> simulation_data[i].closingMC,
                       mcIncrease |-> simulation_data[i].mcIncrease,
                       buyValueAtClose |-> simulation_data[i].buyValueAtClose,
                       totalSumValue |-> total_sum_value,
                       rewardsPercentage |->
                           rewards_percentage(simulation_data[i].buyValueAtClose,
                                              total_sum_value)]]
       IN /\ user_buy_value_at_close' = user_value
          /\ all_buy_values_at_close' = values
          /\ simulation_data' = data
          /\ sim' = [total_sum_value |-> total_sum_value,
                     simulation_data |-> data,
                     user_buy_value_at_close |-> user_value,
                     user_rewards_percentage |-> user_rewards_percentage]
    /\ pc' = IF caller = "calculate_rewards" THEN "simulated" ELSE "done"
    /\ UNCHANGED <<caller, user_bet_amount, user_buy_mc, team1_final_mc,
                   team2_final_mc, winning_team_id, final_mc, standard_buy_size,
                   current_mc, buy_number, user_buy_included, rewards, executed,
                   curve_calls, reward_calls,
                   ledgervars, listenvars>>

\* calculate_rewards, lines 113 and 121-151: the dictionary returned, from
\* the arguments and from what the simulator returned
rewards_result ==
    LET user_tax_paid == FMul(user_bet_amount, TAX_RATE)
        percentage_value_in_dollars ==
            FMul(FDiv(sim.user_rewards_percentage, F(100)),
                 losing_team_liquidity(team1_final_mc, team2_final_mc,
                                       winning_team_id))
        user_post_tax_bet == FMul(user_bet_amount, BET_POOL_PERCENTAGE)
        dollar_increase == FSub(percentage_value_in_dollars, user_post_tax_bet)
    IN [taxPaid |-> user_tax_paid,
        userPostTaxBet |-> user_post_tax_bet,
        userBuyValueAtClose |-> sim.user_buy_value_at_close,
        userRewardsPercentage |-> sim.user_rewards_percentage,
        totalSumValue |-> sim.total_sum_value,
        shareOfLosingTeamLiquidity |-> percentage_value_in_dollars,
        estimatedSSBReward |->
            FAdd(user_post_tax_bet, percentage_value_in_dollars),
        dollarIncrease |-> dollar_increase]

\* calculate_rewards after the simulator returned, lines 121-151
RewardsReturn ==
    /\ pc = "simulated"
    /\ rewards' = rewards_result
    /\ pc' = "done"
    /\ UNCHANGED <<caller, user_bet_amount, user_buy_mc, team1_final_mc,
                   team2_final_mc, winning_team_id, final_mc, standard_buy_size,
                   current_mc, buy_number, user_buy_value_at_close,
                   user_buy_included, all_buy_values_at_close, simulation_data,
                   sim, executed, curve_calls, reward_calls, ledgervars, listenvars>>

Next ==
    \/ CallRewards
    \/ CallSimulate
    \/ LoopStep
    \/ SimulateReturn
    \/ RewardsReturn

Spec == Init /\ [][Next]_vars

(***************************************************************************)
(* The curve functions called on their own                                 *)
(***************************************************************************)
simvars == <<pc, caller, user_bet_amount, user_buy_mc, team1_final_mc,
             team2_final_mc, winning_team_id, final_mc, standard_buy_size,
             current_mc, buy_number, user_buy_value_at_close,
             user_buy_included, all_buy_values_at_close, simulation_data,
             sim, rewards, executed>>

\* calculate_new_market_cap(c, s)
Call_calculate_new_market_cap ==
    /\ Len(curve_calls) < MaxCalls
    /\ \E c \in CurveCaps, s \in CurveStakes :
          curve_calls' = Append(curve_calls,
              [fn |-> "calculate_new_market_cap", market_cap |-> c,
               post_tax_buy |-> s, result |-> calculate_new_market_cap(c, s)])
    /\ UNCHANGED <<simvars, reward_calls, ledgervars, listenvars>>

\* availableliquidity(c)
Call_availableliquidity ==
    /\ Len(curve_calls) < MaxCalls
    /\ \E c \in CurveCaps :
          curve_calls' = Append(curve_calls,
              [fn |-> "availableliquidity", market_cap |-> c,
               post_tax_buy |-> Zero, result |-> availableliquidity(c)])
    /\ UNCHANGED <<simvars, reward_calls, ledgervars, listenvars>>

NextCurve ==
    \/ Call_calculate_new_market_cap
    \/ Call_availableliquidity

SpecCurve == Init /\ [][NextCurve]_vars

(***************************************************************************)
(* The simulator called with a final cap it cannot reach                   *)
(***************************************************************************)
\* a final cap three buys away, and one that 10,000 buys do not reach
ReachableFinalCap == F(104000)
UnreachableFinalCap == FPow2(40)

\* simulate_market_cap_growth(104000, 100, 10)
CallSimulateReachable ==
    /\ pc = "idle"
    /\ final_mc' = ReachableFinalCap
    /\ user_bet_amount' = F(100)
    /\ user_buy_mc' = F(10)
    /\ standard_buy_size' = F(100)
    /\ team1_final_mc' = Zero /\ team2_final_mc' = Zero
    /\ winning_team_id' = 0
    /\ caller' = "simulate_market_cap_growth"
    /\ EnterSimulation

\* the locals before the loop, lines 46-56
entry_locals ==
    [current_mc |-> INITIAL_MC, buy_number |-> 1,
     user_buy_value_at_close |-> Zero, all_buy_values_at_close |-> <<>>,
     simulation_data |-> <<>>, executed |-> <<>>]

\* the locals after n more iterations of the loop body, for each of the
\* locals in L
RECURSIVE after_buys(_, _, _, _, _, _)
after_buys(L, n, f, s, b, z) ==
    IF n = 0 THEN L
    ELSE IF n = 1 THEN {loop_body(l, f, s, b, z) : l \in L}
    ELSE UNION {after_buys({h}, n - (n \div 2), f, s, b, z) :
                   h \in after_buys(L, n \div 2, f, s, b, z)}

\* the locals in L and those of the k iterations after them
RECURSIVE next_buys(_, _, _, _, _, _)
next_buys(L, k, f, s, b, z) ==
    IF k = 0 THEN L
    ELSE L \cup UNION {next_buys({loop_body(l, f, s, b, z)}, k - 1, f, s, b, z) :
                          l \in L}

\* how many of the last buys before the ceiling are explored
TailBuys == 100

\* the locals of simulate_market_cap_growth(2^40, 100, 10) in its last
\* TailBuys iterations before the ceiling and on leaving the loop
TailLocals ==
    next_buys(after_buys({entry_locals}, max_buys - TailBuys,
                         UnreachableFinalCap, F(100), F(10), F(100)),
              TailBuys, UnreachableFinalCap, F(100), F(10), F(100))

\* the program before any call, or late in the loop of the call
\* simulate_market_cap_growth(2^40, 100, 10)
InitCeiling ==
    \/ Init
    \/ /\ LedgerInit
       /\ user_buy_included = FALSE
       /\ pc = "loop"
       /\ caller = "simulate_market_cap_growth"
       /\ user_bet_amount = F(100) /\ user_buy_mc = F(10)
       /\ final_mc = UnreachableFinalCap /\ standard_buy_size = F(100)
       /\ team1_final_mc = Zero /\ team2_final_mc = Zero
       /\ winning_team_id = 0
       /\ sim = None /\ rewards = None
       /\ curve_calls = <<>>
       /\ reward_calls = <<>>
       /\ ListenerInit
       /\ \E l \in TailLocals :
             /\ current_mc = l.current_mc
             /\ buy_number = l.buy_number
             /\ user_buy_value_at_close = l.user_buy_value_at_close
             /\ all_buy_values_at_close = l.all_buy_values_at_close
             /\ simulation_data = l.simulation_data
             /\ executed = l.executed

NextCeiling ==
    \/ CallSimulateReachable
    \/ LoopStep
    \/ SimulateReturn

SpecCeiling == InitCeiling /\ [][NextCeiling]_vars

(***************************************************************************)
(* calculate_rewards called with arguments outside the valid range         *)
(***************************************************************************)
UncheckedStakes == {F(0), FNeg(F(5)), F(100)}
UncheckedEntryCaps == {F(0), FNeg(F(10)), F(10)}
UncheckedFinalCaps == {F(0), F(50000), F(100000), F(104000)}

\* calculate_rewards(s, b, t1, 100000, 1), lines 112-119
CallRewardsUnchecked ==
    /\ pc = "idle"
    /\ \E s \in UncheckedStakes, b \in UncheckedEntryCaps,
          t1 \in UncheckedFinalCaps :
            /\ user_bet_amount' = s
            /\ user_buy_mc' = b
            /\ team1_final_mc' = t1
            /\ final_mc' = winning_team_final_mc(t1, INITIAL_MC, 1)
    /\ team2_final_mc' = INITIAL_MC
    /\ winning_team_id' = 1
    /\ standard_buy_size' = F(100)
    /\ caller' = "calculate_rewards"
    /\ EnterSimulation

NextUnchecked ==
    \/ CallRewardsUnchecked
    \/ LoopStep
    \/ SimulateReturn
    \/ SimulateRaise
    \/ RewardsReturn

SpecUnchecked == Init /\ [][NextUnchecked]_vars

(***************************************************************************)
(* src/helper.py: the bet ledger, resolution and settlement                *)
(***************************************************************************)
calcvars == <<simvars, curve_calls, reward_calls>>

\* the number of bets recorded for the first n users
RECURSIVE BetsOfFirst(_)
BetsOfFirst(n) ==
    IF n = 0 THEN 0 ELSE BetsOfFirst(n - 1) + Len(users[n].bets)

NumBets == BetsOfFirst(Len(users))

\* set_rewards is a plain function without an await: once called it runs
\* to its return, and the listeners, which are coroutines, run only when
\* no such call is in progress
\* the listeners running on a thread of their own, at any time
AtEventLoop_preemptive == TRUE

AtEventLoop == sr.pc = "idle"

\* the place of user_address in users, or 0
UserIndex(user_address) ==
    IF \E i \in 1..Len(users) : users[i].address = user_address
    THEN CHOOSE i \in 1..Len(users) : users[i].address = user_address
    ELSE 0

\* process_bet_event that counts the amount of a bet on an unknown team
process_bet_event_counted(user_address, event_id, team_id, amount, tax_amount, net_bet_amount) ==
    IF event_id \notin EventIds
    THEN UNCHANGED <<events, users, finalized_team_market_caps>>
    ELSE IF team_id \notin TeamIds
    THEN /\ events' = [events EXCEPT ![event_id].total_bet_amount = @ + amount]
         /\ UNCHANGED <<users, finalized_team_market_caps>>
    ELSE
      LET current_mc_ == events[event_id].market_cap[team_id]
          new_mc == calculate_new_market_cap(current_mc_, F(net_bet_amount))
          new_bet == [event_id |-> event_id, team_id |-> team_id,
                      amount |-> amount, tax_amount |-> tax_amount,
                      net_bet_amount |-> net_bet_amount,
                      market_cap_at_bet |-> new_mc]
          i == UserIndex(user_address)
      IN /\ events' = [events EXCEPT
                          ![event_id].market_cap[team_id] = new_mc,
                          ![event_id].total_bet_amount = @ + amount]
         /\ finalized_team_market_caps' =
               [t \in DOMAIN finalized_team_market_caps \cup {team_id} |->
                   IF t = team_id THEN new_mc
                   ELSE finalized_team_market_caps[t]]
         /\ users' =
               IF i # 0
               THEN [users EXCEPT ![i].bets = Append(@, new_bet)]
               ELSE Append(users, [address |-> user_address, balance |-> 0,
                                   bets |-> <<new_bet>>])

\* process_bet_event, lines 181-244, for one BetPlaced log
process_bet_event(user_address, event_id, team_id, amount, tax_amount, net_bet_amount) ==
    IF event_id \notin EventIds \/ team_id \notin TeamIds
    THEN UNCHANGED <<events, users, finalized_team_market_caps>>
    ELSE
      LET current_mc_ == events[event_id].market_cap[team_id]
          new_mc == calculate_new_market_cap(current_mc_, F(net_bet_amount))
          new_bet == [event_id |-> event_id, team_id |-> team_id,
                      amount |-> amount, tax_amount |-> tax_amount,
                      net_bet_amount |-> net_bet_amount,
                      market_cap_at_bet |-> new_mc]
          i == UserIndex(user_address)
      IN /\ events' = [events EXCEPT
                          ![event_id].market_cap[team_id] = new_mc,
                          ![event_id].total_bet_amount = @ + amount]
         /\ finalized_team_market_caps' =
               [t \in DOMAIN finalized_team_market_caps \cup {team_id} |->
                   IF t = team_id THEN new_mc
                   ELSE finalized_team_market_caps[t]]
         /\ users' =
               IF i # 0
               THEN [users EXCEPT ![i].bets = Append(@, new_bet)]
               ELSE Append(users, [address |-> user_address, balance |-> 0,
                                   bets |-> <<new_bet>>])

\* listen_for_bet_events and aggregate_historical_bet_events hand one
\* BetPlaced log to process_bet_event, lines 137-179 and 266-320
BetEvent ==
    /\ AtEventLoop
    /\ NumBets < MaxBets
    /\ \E user_address \in Addresses, event_id \in BetEventIds,
          team_id \in BetTeamIds, a \in BetAmounts :
            process_bet_event(user_address, event_id, team_id, a.amount,
                              a.tax_amount, a.net_bet_amount)
    /\ UNCHANGED <<chain, resolved_log, rewards_tx, sr, passes, calcvars, listenvars, resolve_call>>

\* the local event marked as resolved, lines 370-373 and 418-421
Finalized(event_obj, winner_index) ==
    [event_obj EXCEPT !.status = "finalized", !.is_active = FALSE,
                      !.is_resolved = TRUE, !.winner_index = winner_index]

\* resolve_event, lines 397-435; the contract records the winner it was
\* given as its winningTeamId, counted from 0 or from 1
resolve_event ==
    /\ AtEventLoop
    /\ \E event_id \in ResolvableEvents, winner_index \in WinnerIndexes :
          IF chain[event_id].is_resolved
          THEN /\ resolve_call' =
                    [event_id |-> event_id,
                     result |-> Outcome(None, "Event is already resolved")]
               /\ UNCHANGED <<chain, resolved_log, events>>
          ELSE \E winningTeamId \in {winner_index, winner_index + 1} :
                 /\ chain' = [chain EXCEPT ![event_id] =
                                 [is_resolved |-> TRUE,
                                  winningTeamId |-> winningTeamId]]
                 /\ resolved_log' = resolved_log \cup
                        {[event_id |-> event_id,
                          winningTeamId |-> winningTeamId]}
                 /\ events' = [events EXCEPT ![event_id] =
                                  Finalized(@, winner_index)]
                 /\ resolve_call' =
                      [event_id |-> event_id,
                       result |-> Outcome("tx", "Event finalized successfully")]
    /\ UNCHANGED <<users, finalized_team_market_caps, rewards_tx, sr, passes,
                   calcvars, listenvars>>

\* the event is resolved on the contract by a transaction that did not go
\* through resolve_event; the backend learns of it from the EventResolved
\* log, lines 322-356
ResolvedOnChain ==
    /\ \E event_id \in ResolvableEvents, winningTeamId \in TeamIds :
          /\ ~chain[event_id].is_resolved
          /\ chain' = [chain EXCEPT ![event_id] =
                          [is_resolved |-> TRUE,
                           winningTeamId |-> winningTeamId]]
          /\ resolved_log' = resolved_log \cup
                 {[event_id |-> event_id, winningTeamId |-> winningTeamId]}
    /\ UNCHANGED <<events, users, finalized_team_market_caps, rewards_tx, sr,
                   passes, calcvars, listenvars, resolve_call>>

\* listen_for_event_resolved_events, lines 353-385, for one EventResolved log
EventResolved ==
    /\ AtEventLoop
    /\ \E log \in resolved_log :
          /\ resolved_log' = resolved_log \ {log}
          /\ events' =
               IF log.event_id \in EventIds
               THEN [events EXCEPT ![log.event_id] =
                        Finalized(@, log.winningTeamId - 1)]
               ELSE events
    /\ UNCHANGED <<users, finalized_team_market_caps, chain, rewards_tx, sr,
                   passes, calcvars, listenvars, resolve_call>>

\* simulate_market_cap_growth, lines 58-85: the locals on leaving the loop
RECURSIVE run_loop(_, _, _, _, _)
run_loop(L, f, s, b, z) ==
    UNION {IF FLt(l.current_mc, f) /\ l.buy_number <= max_buys
           THEN run_loop({loop_body(l, f, s, b, z)}, f, s, b, z)
           ELSE {l} : l \in L}

\* simulate_market_cap_growth, lines 87-98, on the locals l left by the
\* loop: the user's value at close, the total and the user's share; the
\* user's buy is never included inside the loop
after_loop(l, f, s, b) ==
    LET user_value ==
            FDiv(FMul(FMul(s, BET_POOL_PERCENTAGE), f),
                 FMin(FMul(b, F(1000)), f))
        total_sum_value ==
            FSum(Append(l.all_buy_values_at_close, user_value))
    IN [user_buy_value_at_close |-> user_value,
        total_sum_value |-> total_sum_value,
        user_rewards_percentage |->
            rewards_percentage(user_value, total_sum_value)]

\* simulate_market_cap_growth(f, s, b), lines 40-100, as a function of
\* its arguments a = (final_mc, user_bet_amount, user_buy_mc,
\* standard_buy_size)
simulate_market_cap_growth(f, s, b) ==
    CHOOSE r \in UNION {{after_loop(l, a[1], a[2], a[3]) :
                           l \in run_loop({entry_locals},
                                          a[1], a[2], a[3], a[4])} :
                        a \in {<<f, s, b, F(100)>>}} : TRUE

\* calculate_rewards as set_rewards calls it, with the losing side's
\* liquidity as an argument: the share of the simulation against the
\* winning side's cap, taken of that liquidity, on top of the post-tax stake
settlement_rewards(user_bet_amount_, user_buy_mc_, winning_mc, losing_mc, losing_liquidity, winning_id) ==
    LET run == simulate_market_cap_growth(winning_mc, F(user_bet_amount_),
                                          user_buy_mc_)
        user_post_tax_bet == FMul(F(user_bet_amount_), BET_POOL_PERCENTAGE)
        dollar_share == FMul(FDiv(run.user_rewards_percentage, F(100)),
                             F(losing_liquidity))
    IN [estimatedSSBReward |-> FAdd(user_post_tax_bet, dollar_share),
        userRewardsPercentage |-> run.user_rewards_percentage]

\* set_rewards, lines 461-466: the winning side and the other one
LosingTeamId(winning_id) == CHOOSE t \in TeamIds : t # winning_id

\* set_rewards, lines 468-472: the first bets on the losing side, summed
RECURSIVE total_losing_team_bets(_, _)
total_losing_team_bets(n, losing_id) ==
    IF n = 0 THEN 0
    ELSE total_losing_team_bets(n - 1, losing_id)
         + (IF users[n].bets # <<>> /\ users[n].bets[1].team_id = losing_id
                /\ users[n].bets[1].amount > 0
            THEN users[n].bets[1].amount ELSE 0)

\* set_rewards with the winner test of the user loop skipped
IsWinner_everyone(user_data, winning_id) == user_data.bets # <<>>

\* set_rewards, lines 486-488: the test of the user loop
IsWinner(user_data, winning_id) ==
    /\ user_data.bets # <<>>
    /\ user_data.bets[1].team_id = winning_id
    /\ user_data.bets[1].amount > 0

\* set_rewards that starts its pass whatever the contract reports
SetRewardsBegin_unguarded ==
    /\ sr.pc = "idle"
    /\ passes < MaxPasses
    /\ passes' = passes + 1
    /\ \E event_id \in EventIds :
         sr' = [SetRewardsIdle EXCEPT
                    !.pc = "users", !.event_id = event_id,
                    !.winning_team_id =
                        IF chain[event_id].winningTeamId \in TeamIds
                        THEN chain[event_id].winningTeamId ELSE 1,
                    !.losing_team_liquidity =
                        total_losing_team_bets(Len(users),
                            LosingTeamId(
                                IF chain[event_id].winningTeamId \in TeamIds
                                THEN chain[event_id].winningTeamId ELSE 1)),
                    !.i = 1]
    /\ UNCHANGED <<events, users, finalized_team_market_caps, chain,
                   resolved_log, rewards_tx, calcvars, listenvars,
                   resolve_call>>

\* set_rewards(event_id), lines 437-476: the checks before the user loop
SetRewardsBegin ==
    /\ sr.pc = "idle"
    /\ passes < MaxPasses
    /\ passes' = passes + 1
    /\ \E event_id \in EventIds :
         sr' =
           IF ~chain[event_id].is_resolved
           THEN [SetRewardsIdle EXCEPT
                    !.result = Outcome(None, "Event is not resolved yet")]
           ELSE IF chain[event_id].winningTeamId = 0
           THEN [SetRewardsIdle EXCEPT
                    !.result = Outcome(None, "Winning team is not found")]
           ELSE [SetRewardsIdle EXCEPT
                    !.pc = "users", !.event_id = event_id,
                    !.winning_team_id = chain[event_id].winningTeamId,
                    !.losing_team_liquidity =
                        total_losing_team_bets(Len(users),
                            LosingTeamId(chain[event_id].winningTeamId)),
                    !.i = 1]
    /\ UNCHANGED <<events, users, finalized_team_market_caps, chain,
                   resolved_log, rewards_tx, calcvars, listenvars, resolve_call>>

\* set_rewards, lines 483-515: the user loop, one user
SetRewardsUser ==
    /\ sr.pc = "users"
    /\ sr.i <= Len(users)
    /\ LET user_data == users[sr.i]
           team == events[sr.event_id].market_cap
           user_reward ==
               settlement_rewards(user_data.bets[1].amount,
                                  user_data.bets[1].market_cap_at_bet,
                                  team[sr.winning_team_id],
                                  team[LosingTeamId(sr.winning_team_id)],
                                  sr.losing_team_liquidity,
                                  sr.winning_team_id)
       IN sr' =
            IF IsWinner(user_data, sr.winning_team_id)
            THEN [sr EXCEPT
                    !.i = @ + 1,
                    !.winning_users = Append(@, user_data.address),
                    !.user_rewards = Append(@, user_reward.estimatedSSBReward)]
            ELSE [sr EXCEPT !.i = @ + 1]
    /\ UNCHANGED <<events, users, finalized_team_market_caps, chain,
                   resolved_log, rewards_tx, passes, calcvars, listenvars, resolve_call>>

\* set_rewards, lines 517-530: after the user loop
SetRewardsFinish ==
    /\ sr.pc = "users"
    /\ sr.i > Len(users)
    /\ IF sr.winning_users = <<>>
       THEN /\ sr' = [SetRewardsIdle EXCEPT !.result =
                  Outcome(None, "No users found who bet on the winning team")]
            /\ UNCHANGED rewards_tx
       ELSE /\ rewards_tx' = Append(rewards_tx,
                  [event_id |-> sr.event_id,
                   winning_users |-> sr.winning_users,
                   user_rewards |-> sr.user_rewards])
            /\ sr' = [SetRewardsIdle EXCEPT !.result =
                  Outcome("tx", "Rewards set for users")]
    /\ UNCHANGED <<events, users, finalized_team_market_caps, chain,
                   resolved_log, passes, calcvars, listenvars, resolve_call>>

NextLedger ==
    \/ BetEvent
    \/ resolve_event
    \/ ResolvedOnChain
    \/ EventResolved
    \/ SetRewardsBegin
    \/ SetRewardsUser
    \/ SetRewardsFinish

SpecLedger == Init /\ [][NextLedger]_vars

(***************************************************************************)
(* The ledger of a user who has bet on both sides of event 1: 0xB first on *)
(* team 2 and then on team 1, 100 each. It is the state SpecLedger is in   *)
(* after these two bet events; from it, bet events are processed up to     *)
(* MaxHedgedBets recorded bets.                                            *)
(***************************************************************************)
MaxHedgedBets == 3

HedgedCap == calculate_new_market_cap(F(MARKET_CAP), F(95))

HedgedBet(team_id) ==
    [event_id |-> 1, team_id |-> team_id, amount |-> 100, tax_amount |-> 5,
     net_bet_amount |-> 95, market_cap_at_bet |-> HedgedCap]

HedgedLedger ==
    /\ events = [e \in EventIds |->
                    IF e = 1
                    THEN [NewEvent EXCEPT
                            !.market_cap = [t \in TeamIds |-> HedgedCap],
                            !.total_bet_amount = 200]
                    ELSE NewEvent]
    /\ users = <<[address |-> "0xB", balance |-> 0,
                  bets |-> <<HedgedBet(2), HedgedBet(1)>>]>>
    /\ finalized_team_market_caps = [t \in TeamIds |-> HedgedCap]

InitHedged ==
    /\ HedgedLedger
    /\ chain = [e \in EventIds |-> [is_resolved |-> FALSE, winningTeamId |-> 0]]
    /\ resolved_log = {}
    /\ rewards_tx = <<>>
    /\ sr = SetRewardsIdle
    /\ passes = 0
    /\ resolve_call = None
    /\ pc = "idle"
    /\ caller = "none"
    /\ user_bet_amount = Zero /\ user_buy_mc = Zero
    /\ team1_final_mc = Zero /\ team2_final_mc = Zero
    /\ winning_team_id = 0
    /\ final_mc = Zero /\ standard_buy_size = Zero
    /\ current_mc = Zero /\ buy_number = 0
    /\ user_buy_value_at_close = Zero /\ user_buy_included = FALSE
    /\ all_buy_values_at_close = <<>> /\ simulation_data = <<>>
    /\ sim = None /\ rewards = None
    /\ executed = <<>>
    /\ curve_calls = <<>>
    /\ reward_calls = <<>>
    /\ ListenerInit

\* one BetPlaced log handed to process_bet_event, as in BetEvent
BetEventHedged ==
    /\ AtEventLoop
    /\ NumBets < MaxHedgedBets
    /\ \E user_address \in Addresses, event_id \in BetEventIds,
          team_id \in BetTeamIds, a \in BetAmounts :
            process_bet_event(user_address, event_id, team_id, a.amount,
                              a.tax_amount, a.net_bet_amount)
    /\ UNCHANGED <<chain, resolved_log, rewards_tx, sr, passes, calcvars, listenvars, resolve_call>>

NextHedged ==
    \/ BetEventHedged
    \/ resolve_event
    \/ ResolvedOnChain
    \/ EventResolved
    \/ SetRewardsBegin
    \/ SetRewardsUser
    \/ SetRewardsFinish

SpecHedged == InitHedged /\ [][NextHedged]_vars

(***************************************************************************)
(* calculate_rewards called again and again, with bet events processed     *)
(* between the calls; every call that returns is recorded with its         *)
(* arguments, what it returned and the number of bets then in the ledger.  *)
(***************************************************************************)
\* bounds: calls of calculate_rewards, and bets recorded between them
MaxRepeats == 3
MaxRepeatBets == 1

RepeatEntryCaps == {F(10), F(150)}

BetweenCalls == pc \in {"idle", "done"}

\* calculate_rewards(100, b, 104000, 100000, w), lines 112-119
CallRewardsAgain ==
    /\ BetweenCalls
    /\ Len(reward_calls) < MaxRepeats
    /\ \E b \in RepeatEntryCaps, w \in TeamIds :
          /\ user_buy_mc' = b
          /\ winning_team_id' = w
          /\ final_mc' = winning_team_final_mc(F(104000), F(100000), w)
    /\ user_bet_amount' = F(100)
    /\ team1_final_mc' = F(104000)
    /\ team2_final_mc' = F(100000)
    /\ standard_buy_size' = F(100)
    /\ caller' = "calculate_rewards"
    /\ EnterSimulation

\* calculate_rewards after the simulator returned, lines 121-151, recorded
RewardsReturnRecorded ==
    /\ pc = "simulated"
    /\ rewards' = rewards_result
    /\ pc' = "done"
    /\ reward_calls' = Append(reward_calls,
          [args |-> <<user_bet_amount, user_buy_mc, team1_final_mc,
                      team2_final_mc, winning_team_id>>,
           result |-> rewards_result,
           simulationData |-> sim.simulation_data,
           bets_recorded |-> NumBets])
    /\ UNCHANGED <<caller, user_bet_amount, user_buy_mc, team1_final_mc,
                   team2_final_mc, winning_team_id, final_mc, standard_buy_size,
                   current_mc, buy_number, user_buy_value_at_close,
                   user_buy_included, all_buy_values_at_close, simulation_data,
                   sim, executed, curve_calls, ledgervars, listenvars>>

\* a bet event processed between two calls, helper.py lines 181-244
RegistryBet ==
    /\ BetweenCalls
    /\ NumBets < MaxRepeatBets
    /\ process_bet_event("0xA", 1, 1, 100, 5, 95)
    /\ UNCHANGED <<chain, resolved_log, rewards_tx, sr, passes, calcvars, listenvars, resolve_call>>

NextRepeat ==
    \/ CallRewardsAgain
    \/ LoopStep
    \/ SimulateReturn
    \/ RewardsReturnRecorded
    \/ RegistryBet

SpecRepeat == Init /\ [][NextRepeat]_vars

(***************************************************************************)
(* Bet events with any amounts: process_bet_event takes the gross, tax and *)
(* net amounts of the log as three separate arguments.                     *)
(***************************************************************************)
\* inputs: amounts as in BetAmounts, a net amount that is not the gross
\* less 5%, and a bet of 1 taxed with integer division
AnyBetAmounts ==
    BetAmounts \cup
        {[amount |-> 100, tax_amount |-> 5, net_bet_amount |-> 90],
         [amount |-> 1, tax_amount |-> 0, net_bet_amount |-> 1]}

BetEventAnyAmounts ==
    /\ AtEventLoop
    /\ NumBets < MaxBets
    /\ \E user_address \in Addresses, event_id \in BetEventIds,
          team_id \in BetTeamIds, a \in AnyBetAmounts :
            process_bet_event(user_address, event_id, team_id, a.amount,
                              a.tax_amount, a.net_bet_amount)
    /\ UNCHANGED <<chain, resolved_log, rewards_tx, sr, passes, calcvars, listenvars, resolve_call>>

NextAmounts == BetEventAnyAmounts

SpecAmounts == Init /\ [][NextAmounts]_vars

(***************************************************************************)
(* listen_for_bet_events, helper.py lines 266-320 (main.py lines 400-512   *)
(* is the same loop with the body of process_bet_event inlined): the       *)
(* listener polls the BetPlaced logs of the blocks mined since its last    *)
(* poll and hands them to process_bet_event one by one.                    *)
(***************************************************************************)
\* bound: blocks mined
MaxBlocks == 2

\* inputs: the BetPlaced log of a bet of 100 on a team of event 1 (team 3
\* is not one of its teams), the same for an event the backend does not
\* know, and the logs one block can carry
BetLog(team_id) ==
    [user |-> "0xA", eventId |-> 1, teamId |-> team_id,
     amount |-> 100, taxAmount |-> 5, netBetAmount |-> 95]
UnknownEventLog == [BetLog(1) EXCEPT !.eventId = 9]
BlockContents ==
    {<<>>, <<BetLog(1)>>, <<BetLog(2)>>, <<BetLog(1), BetLog(2)>>,
     <<BetLog(3)>>, <<UnknownEventLog, BetLog(1)>>}

\* the chain grows by one block with its logs
MineBlock ==
    /\ block_number < MaxBlocks
    /\ block_number' = block_number + 1
    /\ \E logs \in BlockContents :
          bet_logs' = bet_logs \o
              [k \in 1..Len(logs) |->
                  [block |-> block_number + 1, args |-> logs[k]]]
    /\ UNCHANGED <<startup, listener, ledgervars, calcvars>>

\* lines 271-281: the listener starts at the head of the chain
ListenerStart ==
    /\ listener.pc = "off"
    /\ listener' = [listener EXCEPT !.pc = "polling",
                                    !.first_block = block_number,
                                    !.last_processed_block = block_number]
    /\ UNCHANGED <<startup, block_number, bet_logs, ledgervars, calcvars>>

\* BetPlaced.get_logs(from_block, to_block), lines 288-291: the positions
\* in bet_logs of the logs of the blocks from_block..to_block, in order
RECURSIVE get_logs(_, _, _)
get_logs(n, from_block, to_block) ==
    IF n = 0 THEN <<>>
    ELSE IF bet_logs[n].block >= from_block /\ bet_logs[n].block <= to_block
    THEN Append(get_logs(n - 1, from_block, to_block), n)
    ELSE get_logs(n - 1, from_block, to_block)

\* lines 283-294: one poll; the last processed block is moved to the head
\* before any log of the batch is handled
Poll ==
    /\ listener.pc = "polling"
    /\ LET current_block == block_number
           found == get_logs(Len(bet_logs),
                             listener.last_processed_block + 1, current_block)
       IN listener' = [listener EXCEPT
                          !.last_processed_block = current_block,
                          !.bet_events = found,
                          !.pc = IF found = <<>> THEN "polling" ELSE "batch"]
    /\ UNCHANGED <<startup, block_number, bet_logs, ledgervars, calcvars>>

\* process_bet_event, lines 181-230, when Bet(...) raises: the cap, the
\* total and finalized_team_market_caps are already updated, no bet is
\* recorded
process_bet_event_raises(event_id, team_id, amount, net_bet_amount) ==
    LET current_mc_ == events[event_id].market_cap[team_id]
        new_mc == calculate_new_market_cap(current_mc_, F(net_bet_amount))
    IN /\ events' = [events EXCEPT
                        ![event_id].market_cap[team_id] = new_mc,
                        ![event_id].total_bet_amount = @ + amount]
       /\ finalized_team_market_caps' =
             [t \in DOMAIN finalized_team_market_caps \cup {team_id} |->
                 IF t = team_id THEN new_mc
                 ELSE finalized_team_market_caps[t]]
       /\ users' = users

\* models.py line 35 and helper.py lines 223-230: market_cap_at_bet is an
\* int field given the float cap. pydantic 2 raises a ValidationError when
\* the float has a fractional part, pydantic 1 truncates it. A bet of 95 net
\* on a side at the baseline gives 101900.0, a whole number; the caps after
\* it have fractional parts, which the floats of the model do not resolve
BetMayRaise(event_id, team_id) ==
    /\ event_id \in EventIds
    /\ team_id \in TeamIds
    /\ events[event_id].market_cap[team_id] # F(MARKET_CAP)

\* lines 296-309: the next log of the batch is handled and the loop goes
\* on, to the sleep of line 309 after the last one
ProcessNext ==
    /\ listener.pc = "batch"
    /\ LET k == Head(listener.bet_events)
           event == bet_logs[k].args
       IN /\ process_bet_event(event.user, event.eventId, event.teamId,
                               event.amount, event.taxAmount,
                               event.netBetAmount)
          /\ listener' = [listener EXCEPT
                !.bet_events = Tail(@),
                !.handled = Append(@, k),
                !.pc = IF Tail(listener.bet_events) = <<>>
                       THEN "polling" ELSE "batch"]
    /\ UNCHANGED <<startup, block_number, bet_logs, chain, resolved_log, rewards_tx,
                   sr, passes, calcvars, resolve_call>>

\* lines 296-306 and 311-314: process_bet_event raises on the next log;
\* the except clause is outside the for loop, so the loop is left and the
\* listener sleeps and polls again from the block after last_processed_block
ProcessRaises ==
    /\ listener.pc = "batch"
    /\ LET k == Head(listener.bet_events)
           event == bet_logs[k].args
       IN /\ BetMayRaise(event.eventId, event.teamId)
          /\ process_bet_event_raises(event.eventId, event.teamId,
                                      event.amount, event.netBetAmount)
          /\ listener' = [listener EXCEPT
                !.bet_events = <<>>,
                !.handled = Append(@, k),
                !.pc = "polling"]
    /\ UNCHANGED <<startup, block_number, bet_logs, chain, resolved_log, rewards_tx,
                   sr, passes, calcvars, resolve_call>>

NextListener ==
    \/ MineBlock
    \/ ListenerStart
    \/ Poll
    \/ ProcessNext
    \/ ProcessRaises

SpecListener == Init /\ [][NextListener]_vars

(***************************************************************************)
(* startup_event, main.py lines 170-183: the events are synced from the    *)
(* contract, the BetPlaced logs of the past are aggregated, and then the   *)
(* listeners are started. The bodies are those of helper.py (lines 37-179),*)
(* which main.py repeats inline.                                           *)
(***************************************************************************)
\* inputs: what the contract adds up in totalBetAmount, the gross or the
\* net amount of each bet
TotalUnits == {"amount", "netBetAmount"}

\* the contract's totalBetAmount of an event after the first n logs
RECURSIVE ContractTotal(_, _, _)
ContractTotal(n, event_id, unit) ==
    IF n = 0 THEN 0
    ELSE ContractTotal(n - 1, event_id, unit)
         + (IF bet_logs[n].args.eventId = event_id
            THEN bet_logs[n].args[unit] ELSE 0)

\* momentum_contract.functions.events(event_id).call(), helper.py line 84:
\* (id, name, isActive, isResolved, totalBetAmount, winningTeamId); the
\* contract closes an event when it resolves it
contract_event(event_id, unit) ==
    [id |-> event_id,
     isActive |-> ~chain[event_id].is_resolved,
     isResolved |-> chain[event_id].is_resolved,
     totalBetAmount |-> ContractTotal(Len(bet_logs), event_id, unit),
     winningTeamId |-> chain[event_id].winningTeamId]

\* sync_events_from_contract, helper.py lines 87-113, for one event
synced_event(event_obj, ce) ==
    IF ce.id = 0 THEN event_obj
    ELSE [event_obj EXCEPT
            !.is_active = ce.isActive,
            !.is_resolved = ce.isResolved,
            !.total_bet_amount = ce.totalBetAmount,
            !.status = IF ce.isResolved THEN "finalized" ELSE @,
            !.winner_index = IF ce.isResolved /\ ce.winningTeamId > 0
                             THEN ce.winningTeamId - 1 ELSE @]

\* startup_event line 175: sync_events_from_contract, helper.py lines 37-135
SyncEvents ==
    /\ startup.pc = "off"
    /\ \E unit \in TotalUnits :
          events' = [e \in EventIds |->
                        synced_event(events[e], contract_event(e, unit))]
    /\ startup' = [startup EXCEPT !.pc = "synced"]
    /\ UNCHANGED <<users, finalized_team_market_caps, chain, resolved_log,
                   rewards_tx, sr, passes, block_number, bet_logs, listener,
                   calcvars, resolve_call>>

\* aggregate_historical_bet_events, helper.py lines 151-165: the head of
\* the chain is read and the logs from max(0, head - 10000) to it fetched
AggregateBegin ==
    /\ startup.pc = "synced"
    /\ LET current_block == block_number
           from_block == IF current_block > 10000
                         THEN current_block - 10000 ELSE 0
           found == get_logs(Len(bet_logs), from_block, current_block)
       IN startup' = [startup EXCEPT
                         !.current_block = current_block,
                         !.bet_events = found,
                         !.pc = IF found = <<>> THEN "aggregated"
                                ELSE "history"]
    /\ UNCHANGED <<block_number, bet_logs, listener, ledgervars, calcvars>>

\* lines 169-171: the next log of the past is handed to process_bet_event
AggregateNext ==
    /\ startup.pc = "history"
    /\ LET k == Head(startup.bet_events)
           event == bet_logs[k].args
       IN /\ process_bet_event(event.user, event.eventId, event.teamId,
                               event.amount, event.taxAmount,
                               event.netBetAmount)
          /\ startup' = [startup EXCEPT
                !.bet_events = Tail(@),
                !.applied = Append(@, k),
                !.pc = IF Tail(startup.bet_events) = <<>>
                       THEN "aggregated" ELSE "history"]
    /\ UNCHANGED <<block_number, bet_logs, listener, chain, resolved_log,
                   rewards_tx, sr, passes, calcvars, resolve_call>>

\* lines 169-176: process_bet_event raises on the next log of the past; the
\* except clause is outside the for loop and the aggregation ends there
AggregateRaises ==
    /\ startup.pc = "history"
    /\ LET k == Head(startup.bet_events)
           event == bet_logs[k].args
       IN /\ BetMayRaise(event.eventId, event.teamId)
          /\ process_bet_event_raises(event.eventId, event.teamId,
                                      event.amount, event.netBetAmount)
          /\ startup' = [startup EXCEPT
                !.bet_events = <<>>,
                !.applied = Append(@, k),
                !.pc = "aggregated"]
    /\ UNCHANGED <<block_number, bet_logs, listener, chain, resolved_log,
                   rewards_tx, sr, passes, calcvars, resolve_call>>

\* startup_event lines 181-183 and helper.py lines 271-281: the listener
\* task is created and reads the head of the chain when it first runs
StartListeners ==
    /\ startup.pc = "aggregated"
    /\ startup' = [startup EXCEPT !.pc = "listening"]
    /\ listener' = [listener EXCEPT !.pc = "polling",
                                    !.first_block = block_number,
                                    !.last_processed_block = block_number]
    /\ UNCHANGED <<block_number, bet_logs, ledgervars, calcvars>>

NextStartup ==
    \/ MineBlock
    \/ ResolvedOnChain
    \/ SyncEvents
    \/ AggregateBegin
    \/ AggregateNext
    \/ AggregateRaises
    \/ StartListeners
    \/ Poll
    \/ ProcessNext
    \/ ProcessRaises

SpecStartup == Init /\ [][NextStartup]_vars

(***************************************************************************)
(* The local event registry under the calls that resolve an event or copy  *)
(* its state from the contract: resolve_event, the EventResolved listener, *)
(* finalize_event of main.py and sync_events_from_contract. helper.py and  *)
(* main.py share one events list (EVENTS of constants.py).                 *)
(***************************************************************************)
\* finalize_event, main.py lines 66-104: the event is marked as resolved
\* locally when the contract does not report it resolved; no transaction
\* is sent
finalize_event ==
    /\ AtEventLoop
    /\ \E event_id \in EventIds, winner_index \in WinnerIndexes :
          IF chain[event_id].is_resolved
          THEN UNCHANGED events
          ELSE events' = [events EXCEPT ![event_id] =
                             Finalized(@, winner_index)]
    /\ UNCHANGED <<users, finalized_team_market_caps, chain, resolved_log,
                   rewards_tx, sr, passes, calcvars, listenvars, resolve_call>>

\* sync_events_from_contract, helper.py lines 37-135, called again while
\* the backend runs
SyncRegistry ==
    /\ AtEventLoop
    /\ \E unit \in TotalUnits :
          events' = [e \in EventIds |->
                        synced_event(events[e], contract_event(e, unit))]
    /\ UNCHANGED <<users, finalized_team_market_caps, chain, resolved_log,
                   rewards_tx, sr, passes, calcvars, listenvars, resolve_call>>

NextRegistry ==
    \/ MineBlock
    \/ resolve_event
    \/ ResolvedOnChain
    \/ EventResolved
    \/ finalize_event
    \/ SyncRegistry

SpecRegistry == Init /\ [][NextRegistry]_vars

(***************************************************************************)
(* Properties                                                              *)
(***************************************************************************)
Returned == sim # None
RewardsReturned == rewards # None
NumBuys == Len(executed)
FEq(a, b) == a = b
FPos(a) == a.m > 0
FNonNeg(a) == a.m >= 0

\* the steps whose opening cap is at or above the user's scaled entry cap
ReachedSteps == {i \in 1..Len(executed) : FLe(user_buy_mc_value, executed[i].openingMC)}
ReachedInLoop == ReachedSteps # {}
FirstReached == CHOOSE i \in ReachedSteps : \A j \in ReachedSteps : i <= j

Count(s, v) == Cardinality({i \in DOMAIN s : s[i] = v})
\* value-at-close of every executed standard buy, then the user's
AllValuesAtClose ==
    [i \in 1..(Len(executed) + 1) |->
        IF i <= Len(executed) THEN executed[i].buyValueAtClose
        ELSE sim.user_buy_value_at_close]

\* C1: the total value returned by the simulator is the sum of the
\* value-at-close of every executed standard buy plus the user's, each
\* counted exactly once (the summed list holds exactly those values).
C1_TotalIsSumOfAllValues ==
    Returned =>
        /\ sim.total_sum_value = FSum(all_buy_values_at_close)
        /\ Len(all_buy_values_at_close) = Len(AllValuesAtClose)
        /\ \A i \in DOMAIN AllValuesAtClose :
              Count(all_buy_values_at_close, AllValuesAtClose[i])
                  = Count(AllValuesAtClose, AllValuesAtClose[i])

\* C2 (as stated): the user's share percentage lies in (0, 100] and equals
\* 100 if and only if zero standard buys were executed.
C2_ShareHundredIffSole ==
    Returned =>
        /\ FPos(sim.user_rewards_percentage)
        /\ FLe(sim.user_rewards_percentage, F(100))
        /\ (sim.user_rewards_percentage = F(100) <=> NumBuys = 0)

\* C2 (amended): the share lies in (0, 100], it is 100 whenever zero standard
\* buys were executed, and after at least one standard buy it is below 100
\* unless the floating-point total equals the user's own value.
C2_ShareRange ==
    Returned =>
        /\ FPos(sim.user_rewards_percentage)
        /\ FLe(sim.user_rewards_percentage, F(100))
        /\ (NumBuys = 0 => sim.user_rewards_percentage = F(100))
        /\ (NumBuys > 0 /\ FLt(sim.user_buy_value_at_close, sim.total_sum_value)
               => FLt(sim.user_rewards_percentage, F(100)))

\* a run of several buys whose values are absorbed by the user's value
C2_Witness ==
    /\ Returned /\ NumBuys > 1
    /\ sim.user_rewards_percentage = F(100)
    /\ sim.total_sum_value = sim.user_buy_value_at_close

\* C3: when some step opens at or above the user's scaled entry cap, the
\* user's value-at-close is userPostTaxStake * finalCap / openingCap of the
\* first such step.
C3_UserValueFixedAtFirstStep ==
    (Returned /\ ReachedInLoop) =>
        sim.user_buy_value_at_close =
            FDiv(FMul(user_post_tax_buy, final_mc),
                 executed[FirstReached].openingMC)

\* C4: with a scaled entry cap at or below the baseline and a final cap at
\* or above it, the user's value-at-close is userPostTaxStake * finalCap /
\* 100,000.
C4_FirstEntrantAtBaseline ==
    (Returned /\ FLe(user_buy_mc_value, INITIAL_MC) /\ FLe(INITIAL_MC, final_mc)) =>
        sim.user_buy_value_at_close =
            FDiv(FMul(user_post_tax_buy, final_mc), F(100000))

LosingFinalMc == IF winning_team_id = 1 THEN team2_final_mc ELSE team1_final_mc
WinningFinalMc == IF winning_team_id = 1 THEN team1_final_mc ELSE team2_final_mc

\* C5: when the losing side's final cap is <= 100,000 the dollar share is 0,
\* the estimated payout equals the post-tax stake and the profit is 0.
C5_LosingAtBaselineZeroProfit ==
    (RewardsReturned /\ FLe(LosingFinalMc, F(100000))) =>
        /\ rewards.shareOfLosingTeamLiquidity = Zero
        /\ rewards.estimatedSSBReward = rewards.userPostTaxBet
        /\ rewards.dollarIncrease = Zero

\* C6: no monetary figure returned by calculate_rewards is negative, and
\* availableliquidity is never negative.
C6_NoNegativeFigure ==
    RewardsReturned =>
        /\ FNonNeg(rewards.taxPaid)
        /\ FNonNeg(rewards.userPostTaxBet)
        /\ FNonNeg(rewards.userBuyValueAtClose)
        /\ FNonNeg(rewards.shareOfLosingTeamLiquidity)
        /\ FNonNeg(rewards.estimatedSSBReward)
        /\ FNonNeg(rewards.dollarIncrease)
        /\ FNonNeg(availableliquidity(team1_final_mc))
        /\ FNonNeg(availableliquidity(team2_final_mc))

\* C7: calculate_rewards simulates against the winning side's final cap
\* (side 1 for winning_team_id 1, side 2 for 2) and returns dollarShare =
\* sharePercent / 100 * availableliquidity(losing final cap), estimatedPayout
\* = postTaxStake + dollarShare, profit = dollarShare - postTaxStake.
C7_RewardFormulas ==
    RewardsReturned =>
        LET dollarShare ==
              FMul(FDiv(sim.user_rewards_percentage, F(100)),
                   IF FLe(LosingFinalMc, F(100000)) THEN Zero
                   ELSE FSub(totalliquidity(LosingFinalMc), F(10000)))
            postTaxStake == FMul(user_bet_amount, BET_POOL_PERCENTAGE)
        IN /\ final_mc = WinningFinalMc
           /\ rewards.userRewardsPercentage = sim.user_rewards_percentage
           /\ rewards.shareOfLosingTeamLiquidity = dollarShare
           /\ rewards.estimatedSSBReward = FAdd(postTaxStake, dollarShare)
           /\ rewards.dollarIncrease = FSub(dollarShare, postTaxStake)

\* side 2 won, the sides' liquidities differ and the dollar share is positive
C7_Witness ==
    /\ RewardsReturned /\ winning_team_id = 2
    /\ availableliquidity(team1_final_mc) # availableliquidity(team2_final_mc)
    /\ FPos(rewards.shareOfLosingTeamLiquidity)
    /\ NumBuys > 0

AvailableCalls == {i \in DOMAIN curve_calls : curve_calls[i].fn = "availableliquidity"}
NewCapCalls == {i \in DOMAIN curve_calls : curve_calls[i].fn = "calculate_new_market_cap"}

\* C8: availableliquidity(c) is exactly 0 for c <= 100,000; for c > 100,000
\* it is totalliquidity(c) - 10,000 and non-negative.
C8_AvailableLiquidity ==
    \A i \in AvailableCalls :
        LET c == curve_calls[i].market_cap
            r == curve_calls[i].result
        IN /\ (FLe(c, F(100000)) => r = Zero)
           /\ (FLt(F(100000), c) =>
                  r = FSub(totalliquidity(c), F(10000)) /\ FNonNeg(r))

\* a call at the baseline and a call just above it
C8_Witness ==
    \E i, j \in AvailableCalls :
        /\ curve_calls[i].market_cap = F(100000) /\ curve_calls[i].result = Zero
        /\ FLt(F(100000), curve_calls[j].market_cap) /\ FPos(curve_calls[j].result)

\* the distance from a float to the next one above it
Ulp(a) == [m |-> Pow2(Precision - 1), e |-> a.e - Precision + 1]

C10_StrictlyMonotone ==
    \A i, j \in NewCapCalls :
        (/\ curve_calls[i].market_cap = curve_calls[j].market_cap
         /\ FLt(curve_calls[i].post_tax_buy, curve_calls[j].post_tax_buy))
        => FLt(curve_calls[i].result, curve_calls[j].result)

\* C10 (amended): for a fixed cap and stakes s1 < s2,
\* calculate_new_market_cap(c, s1) <= calculate_new_market_cap(c, s2), and
\* the results differ whenever the two increases differ by at least two
\* units in the last place of the larger result.
C10_Monotone ==
    \A i, j \in NewCapCalls :
        LET c  == curve_calls[i].market_cap
            s1 == curve_calls[i].post_tax_buy
            s2 == curve_calls[j].post_tax_buy
            r1 == curve_calls[i].result
            r2 == curve_calls[j].result
        IN (curve_calls[j].market_cap = c /\ FLt(s1, s2)) =>
              /\ FLe(r1, r2)
              /\ (FLe(FAdd(mc_increase_of(c, s1), FMul(F(2), Ulp(r2))),
                      mc_increase_of(c, s2)) => FLt(r1, r2))

\* two stakes at one cap whose results differ
C10_Witness ==
    /\ \E i, j \in NewCapCalls :
          /\ curve_calls[i].market_cap = curve_calls[j].market_cap
          /\ FLt(curve_calls[i].post_tax_buy, curve_calls[j].post_tax_buy)
          /\ FLt(curve_calls[i].result, curve_calls[j].result)

(***************************************************************************)
(* C11: the simulation always returns: the loop's buy number goes up by    *)
(* one with every standard buy and the loop is left at the latest when it  *)
(* passes 10,000, and leaving the loop returns a result. At most 10,000    *)
(* standard buys are executed whatever the final cap, none once the        *)
(* current cap has reached the final cap, and what is returned was         *)
(* computed at the last cap reached.                                       *)
(***************************************************************************)
LastReachedCap ==
    IF executed = <<>> THEN INITIAL_MC ELSE executed[Len(executed)].closingMC

CeilingHit == Len(executed) = max_buys /\ FLt(current_mc, final_mc)

C11_TerminatesWithinCeiling ==
    [][/\ pc' = "loop" => /\ buy_number' = Len(executed') + 1
                          /\ buy_number' <= max_buys + 1
                          /\ current_mc' = LastReachedCap'
       /\ pc = "loop" /\ pc' = "loop"
            => /\ buy_number' = buy_number + 1
               /\ FLt(current_mc, final_mc)
               /\ Len(executed) < max_buys
       /\ pc = "loop" /\ pc' # "loop"
            => /\ Returned' /\ pc' = "done"
               /\ UNCHANGED <<current_mc, executed>>]_vars

C11_Witness == Returned /\ CeilingHit /\ pc = "done"

(***************************************************************************)
(* C12: a result returned after the 10,000-buy ceiling stopped the loop    *)
(* carries, besides the four figures of a converged run, a flag saying so. *)
(***************************************************************************)
ConvergedResultFields ==
    {"total_sum_value", "simulation_data", "user_buy_value_at_close",
     "user_rewards_percentage"}

C12_CeilingFlagged ==
    (Returned /\ CeilingHit)
        => \E f \in DOMAIN sim : f \notin ConvergedResultFields

(***************************************************************************)
(* C13: a call with a non-positive stake, a non-positive entry cap or a    *)
(* final cap below the baseline is rejected before any simulation step:    *)
(* it never returns a figure and never fails with a division by zero.      *)
(***************************************************************************)
InvalidInput ==
    \/ FLe(user_bet_amount, Zero)
    \/ FLe(user_buy_mc, Zero)
    \/ FLt(final_mc, INITIAL_MC)

C13_NoFigureNoZeroDivision ==
    (pc # "idle" /\ InvalidInput)
        => /\ pc # "ZeroDivisionError"
           /\ ~Returned /\ ~RewardsReturned

InSeq(x, seq) == \E k \in 1..Len(seq) : seq[k] = x

Qualifies(user_data, event_id, winning_id) ==
    \E k \in 1..Len(user_data.bets) :
        /\ user_data.bets[k].event_id = event_id
        /\ user_data.bets[k].team_id = winning_id
        /\ user_data.bets[k].amount > 0

SettlementEnds == sr.pc = "users" /\ sr'.pc = "idle"

NoDuplicates(seq) ==
    \A j, k \in 1..Len(seq) : seq[j] = seq[k] => j = k

NobodyQualifies ==
    \A i \in 1..Len(users) :
        ~Qualifies(users[i], sr.event_id, sr.winning_team_id)

Occurrences(x, seq) == Cardinality({k \in 1..Len(seq) : seq[k] = x})

PayoutOf(user_data, batch) ==
    settlement_rewards(
        user_data.bets[1].amount, user_data.bets[1].market_cap_at_bet,
        events[batch.event_id].market_cap[batch.winning_team_id],
        events[batch.event_id].market_cap[LosingTeamId(batch.winning_team_id)],
        batch.losing_team_liquidity, batch.winning_team_id).estimatedSSBReward

Submits == SettlementEnds /\ rewards_tx' # rewards_tx

CapOf(event_id, team_id) == events[event_id].market_cap[team_id]

CapsAboveBets ==
    /\ \A e \in EventIds, t \in TeamIds : FLe(F(MARKET_CAP), CapOf(e, t))
    /\ \A i \in 1..Len(users) : \A k \in 1..Len(users[i].bets) :
          FLe(users[i].bets[k].market_cap_at_bet,
              CapOf(users[i].bets[k].event_id, users[i].bets[k].team_id))

CapsNeverDecrease ==
    \A e \in EventIds, t \in TeamIds : FLe(CapOf(e, t), CapOf(e, t)')

C18_CapsMonotone ==
    /\ LedgerInit => \A e \in EventIds, t \in TeamIds :
                        CapOf(e, t) = F(MARKET_CAP)
    /\ []CapsAboveBets
    /\ [][CapsNeverDecrease]_vars

\* a side that two bets have raised: its cap is above the cap recorded with
\* the first of them
C18_Witness ==
    \E i \in 1..Len(users) : \E k \in 1..Len(users[i].bets) :
        /\ FLt(F(MARKET_CAP), users[i].bets[k].market_cap_at_bet)
        /\ FLt(users[i].bets[k].market_cap_at_bet,
               CapOf(users[i].bets[k].event_id, users[i].bets[k].team_id))

(***************************************************************************)
(* C19: once an event is marked resolved, no step changes the cap of one   *)
(* of its sides or adds a bet on it to the ledger.                         *)
(***************************************************************************)
BetsOnEvent(event_id) ==
    {<<i, k>> \in (1..Len(users)) \X (1..MaxBets) :
        k <= Len(users[i].bets) /\ users[i].bets[k].event_id = event_id}

C19_FrozenAtResolution ==
    [][\A e \in EventIds :
          events[e].is_resolved =>
              /\ events'[e].market_cap = events[e].market_cap
              /\ BetsOnEvent(e)' = BetsOnEvent(e)]_vars

(***************************************************************************)
(* C20: while a call of set_rewards is in its pass over the users, no step *)
(* changes a cap or a user's bets: every reward of the pass is computed    *)
(* from the same caps and the same ledger.                                 *)
(***************************************************************************)
InPass == sr.pc = "users"

LosingCapOfPass == CapOf(sr.event_id, LosingTeamId(sr.winning_team_id))

C21_LiquidityFromLosingCap ==
    InPass => F(sr.losing_team_liquidity) = availableliquidity(LosingCapOfPass)

(***************************************************************************)
(* C22: two calls of calculate_rewards with the same arguments return the  *)
(* same figures and the same ledger, whatever was called and whatever bet  *)
(* was recorded in between; and no step of a call changes the registries.  *)
(***************************************************************************)
SameArgumentsSameResult ==
    \A i, j \in DOMAIN reward_calls :
        reward_calls[i].args = reward_calls[j].args
            => /\ reward_calls[i].result = reward_calls[j].result
               /\ reward_calls[i].simulationData = reward_calls[j].simulationData

InCall == pc \in {"loop", "simulated"}

C22_Deterministic ==
    /\ []SameArgumentsSameResult
    /\ [][(InCall \/ InCall') =>
            UNCHANGED <<events, users, finalized_team_market_caps>>]_vars

\* the same call made twice, with another call and a bet event in between
C22_Witness ==
    \E i, k, j \in DOMAIN reward_calls :
        /\ i < k /\ k < j
        /\ reward_calls[i].args = reward_calls[j].args
        /\ reward_calls[k].args # reward_calls[i].args
        /\ reward_calls[k].result # reward_calls[i].result
        /\ reward_calls[i].bets_recorded < reward_calls[j].bets_recorded

(***************************************************************************)
(* C23: every bet in the ledger has a net amount of exactly 95% of its     *)
(* gross amount, and its tax and net amounts add up to the gross amount.   *)
(***************************************************************************)
NetIsGrossLessTax(bet) ==
    /\ 100 * bet.net_bet_amount = 95 * bet.amount
    /\ bet.tax_amount + bet.net_bet_amount = bet.amount

C23_RecordedBetsTaxed ==
    \A i \in 1..Len(users) : \A k \in 1..Len(users[i].bets) :
        NetIsGrossLessTax(users[i].bets[k])

(***************************************************************************)
(* C24: when the scaled entry cap is above the opening cap of every step   *)
(* of the simulation, the user's value-at-close is post-tax stake * final  *)
(* cap / min(entry cap, final cap); with an entry cap at or above the      *)
(* final cap it is the post-tax stake itself.                              *)
(***************************************************************************)
NeverReached == Returned /\ ~ReachedInLoop

C24_FloorDenominator ==
    NeverReached =>
        /\ sim.user_buy_value_at_close =
              FDiv(FMul(user_post_tax_buy, final_mc),
                   FMin(user_buy_mc_value, final_mc))
        /\ FLe(final_mc, user_buy_mc_value)
              => sim.user_buy_value_at_close = user_post_tax_buy

(***************************************************************************)
(* C24 amended: when the scaled entry cap is above the opening cap of      *)
(* every step, the user's value-at-close is the float quotient post-tax    *)
(* stake * final cap / min(entry cap, final cap); with an entry cap at or  *)
(* above the final cap it is within one unit in the last place of the      *)
(* post-tax stake, below it or above it.                                   *)
(***************************************************************************)
WithinOneUlp(a, b) ==
    /\ FLe(FSub(b, Ulp(b)), a)
    /\ FLe(a, FAdd(b, Ulp(b)))

C24_FloorDenominatorRounded ==
    NeverReached =>
        /\ sim.user_buy_value_at_close =
              FDiv(FMul(user_post_tax_buy, final_mc),
                   FMin(user_buy_mc_value, final_mc))
        /\ FLe(final_mc, user_buy_mc_value)
              => WithinOneUlp(sim.user_buy_value_at_close, user_post_tax_buy)

\* a value the two roundings have moved off the post-tax stake
C24_Witness ==
    /\ NeverReached
    /\ FLe(final_mc, user_buy_mc_value)
    /\ sim.user_buy_value_at_close # user_post_tax_buy

(***************************************************************************)
(* C25: calculate_rewards returns taxPaid = stake * 5% and userPostTaxBet  *)
(* = stake * 95%, the two add up to the stake, a stake of 100 gives 95 and *)
(* 5, and the simulator's value for the user is computed from the same     *)
(* post-tax stake.                                                         *)
(***************************************************************************)
TaxAndPostTaxFigures ==
    /\ rewards.taxPaid = FMul(user_bet_amount, TAX_RATE)
    /\ rewards.userPostTaxBet = FMul(user_bet_amount, BET_POOL_PERCENTAGE)
    /\ user_bet_amount = F(100)
          => rewards.userPostTaxBet = F(95) /\ rewards.taxPaid = F(5)
    /\ rewards.userBuyValueAtClose =
          FDiv(FMul(rewards.userPostTaxBet, final_mc),
               FMin(user_buy_mc_value, final_mc))

C25_TaxSplitsStake ==
    RewardsReturned =>
        /\ TaxAndPostTaxFigures
        /\ FAdd(rewards.taxPaid, rewards.userPostTaxBet) = user_bet_amount

(***************************************************************************)
(* C25 amended: the same figures, and taxPaid + userPostTaxBet is the      *)
(* stake to within one unit in the last place.                             *)
(***************************************************************************)
C25_TaxSplitsStakeRounded ==
    RewardsReturned =>
        /\ TaxAndPostTaxFigures
        /\ WithinOneUlp(FAdd(rewards.taxPaid, rewards.userPostTaxBet),
                        user_bet_amount)

\* a stake that the sum of its two parts does not give back
C25_Witness ==
    /\ RewardsReturned
    /\ FLt(FAdd(rewards.taxPaid, rewards.userPostTaxBet), user_bet_amount)

(***************************************************************************)
(* C26: the simulation starts at the baseline cap; the k-th executed       *)
(* standard buy opens at the closing cap of the buy before it (at the      *)
(* baseline for k = 1), below the final cap, closes at                     *)
(* calculate_new_market_cap(opening cap, post-tax standard buy), is worth  *)
(* post-tax standard buy * final cap / opening cap at close, and opens     *)
(* strictly above the buy before it.                                       *)
(***************************************************************************)
OpensWhereLastClosed(k) ==
    executed[k].openingMC =
        IF k = 1 THEN INITIAL_MC ELSE executed[k - 1].closingMC

C26_StandardBuyChain ==
    /\ (pc = "loop" /\ executed = <<>>) => current_mc = INITIAL_MC
    /\ \A k \in 1..Len(executed) :
          /\ OpensWhereLastClosed(k)
          /\ FLt(executed[k].openingMC, final_mc)
          /\ executed[k].closingMC =
                calculate_new_market_cap(executed[k].openingMC,
                                         post_tax_standard_buy)
          /\ executed[k].buyValueAtClose =
                FDiv(FMul(post_tax_standard_buy, final_mc),
                     executed[k].openingMC)
          /\ k > 1 => FLt(executed[k - 1].openingMC, executed[k].openingMC)

\* a returned run of at least three standard buys
C26_Witness == Returned /\ Len(executed) >= 3

(***************************************************************************)
(* C27: the ledger simulate_market_cap_growth returns has one entry for    *)
(* each standard buy executed, in order: entry i is buy number i, and      *)
(* there are as many entries as buys.                                      *)
(***************************************************************************)
C27_LedgerHasEveryBuy ==
    Returned =>
        /\ Len(sim.simulation_data) = Len(executed)
        /\ \A i \in 1..Len(sim.simulation_data) :
              /\ sim.simulation_data[i].buy_number = i
              /\ sim.simulation_data[i].openingMC = executed[i].openingMC

(***************************************************************************)
(* C28: for a fixed stake and a fixed final cap, the user's value-at-close *)
(* does not grow with the entry cap: of two calls that differ only in the  *)
(* entry cap, the one with the lower entry cap returns a value at least as *)
(* large.                                                                  *)
(***************************************************************************)
\* the arguments of a recorded call: stake, entry cap, the two final caps
\* and the winning side
StakeOf(call) == call.args[1]
EntryCapOf(call) == call.args[2]
FinalCapsOf(call) == <<call.args[3], call.args[4], call.args[5]>>

C28_EarlierEntryNotWorse ==
    \A i, j \in DOMAIN reward_calls :
        (/\ StakeOf(reward_calls[i]) = StakeOf(reward_calls[j])
         /\ FinalCapsOf(reward_calls[i]) = FinalCapsOf(reward_calls[j])
         /\ FLe(EntryCapOf(reward_calls[i]), EntryCapOf(reward_calls[j])))
        => FLe(reward_calls[j].result.userBuyValueAtClose,
               reward_calls[i].result.userBuyValueAtClose)

\* two calls with the same stake and final cap, the one with the lower
\* entry cap worth strictly more, after standard buys were simulated
C28_Witness ==
    \E i, j \in DOMAIN reward_calls :
        /\ FinalCapsOf(reward_calls[i]) = FinalCapsOf(reward_calls[j])
        /\ reward_calls[i].simulationData # <<>>
        /\ FLt(EntryCapOf(reward_calls[i]), EntryCapOf(reward_calls[j]))
        /\ FLt(reward_calls[j].result.userBuyValueAtClose,
               reward_calls[i].result.userBuyValueAtClose)

(***************************************************************************)
(* C29: in a settlement, a winner whose recorded market_cap_at_bet is      *)
(* strictly below the winning side's final cap gets a value at close       *)
(* strictly greater than the post-tax stake: the simulator divides by the  *)
(* recorded cap, taken in the unit of the final cap, not by the final cap. *)
(***************************************************************************)
WinningCapOfPass == CapOf(sr.event_id, sr.winning_team_id)

\* the user the pass is about to handle, set_rewards line 483
UserOfPass == users[sr.i]

\* the value at close of the simulation run for the first bet of the user
\* of the pass, with the arguments of lines 493-496
ValueAtCloseOfPass ==
    simulate_market_cap_growth(WinningCapOfPass,
                               F(UserOfPass.bets[1].amount),
                               UserOfPass.bets[1].market_cap_at_bet)
        .user_buy_value_at_close

EnteredBelowFinalCap ==
    /\ InPass
    /\ sr.i <= Len(users)
    /\ IsWinner(UserOfPass, sr.winning_team_id)
    /\ FLt(UserOfPass.bets[1].market_cap_at_bet, WinningCapOfPass)

C29_EntryCapInFinalCapUnit ==
    EnteredBelowFinalCap =>
        FLt(FMul(F(UserOfPass.bets[1].amount), BET_POOL_PERCENTAGE),
            ValueAtCloseOfPass)

(***************************************************************************)
(* C30: every BetPlaced log of a block after the one at which the listener *)
(* started is handed to process_bet_event exactly once: once the listener  *)
(* is through the batch of a poll, each log of the blocks up to            *)
(* last_processed_block has been handled once; polled ranges neither       *)
(* overlap nor skip a block, and an exception on one log of a batch does   *)
(* not drop the logs after it.                                             *)
(***************************************************************************)
TimesHandled(k) == Occurrences(k, listener.handled)

C30_EveryBetHandledOnce ==
    \A k \in DOMAIN bet_logs :
        /\ TimesHandled(k) <= 1
        /\ (/\ listener.pc = "polling"
            /\ bet_logs[k].block > listener.first_block
            /\ bet_logs[k].block <= listener.last_processed_block)
           => TimesHandled(k) = 1

(***************************************************************************)
(* C31: at startup no BetPlaced log is lost or applied twice between the   *)
(* aggregation of the past and the live listener: no log is ever handed to *)
(* process_bet_event twice, and once the listener has started, every log   *)
(* of a block up to the block it started at has been applied once by the   *)
(* aggregation, whatever blocks were mined in between.                     *)
(***************************************************************************)
TimesAggregated(k) == Occurrences(k, startup.applied)

ListenerStarted == startup.pc = "listening"

C31_StartupLosesNoBet ==
    \A k \in DOMAIN bet_logs :
        /\ TimesAggregated(k) + TimesHandled(k) <= 1
        /\ (ListenerStarted /\ bet_logs[k].block <= listener.first_block)
           => TimesAggregated(k) = 1

(***************************************************************************)
(* C32: a call of process_bet_event with an event id that is not in the    *)
(* local events list, or with a team id that is not a team of that event,  *)
(* leaves every cap, every event's total_bet_amount, the users and         *)
(* finalized_team_market_caps as they were.                                *)
(***************************************************************************)
UnknownIds(args) ==
    args.eventId \notin EventIds \/ args.teamId \notin TeamIds

\* the step hands log k to process_bet_event, from the listener or from
\* the aggregation
HandsOver(k) ==
    \/ listener'.handled = Append(listener.handled, k)
    \/ startup'.applied = Append(startup.applied, k)

C32_UnknownIdsChangeNothing ==
    [][\A k \in DOMAIN bet_logs :
          (HandsOver(k) /\ UnknownIds(bet_logs[k].args))
          => UNCHANGED <<events, users, finalized_team_market_caps>>]_vars

\* logs with an unknown team and with an unknown event were handed over
C32_Witness ==
    /\ \E j \in DOMAIN listener.handled :
          bet_logs[listener.handled[j]].args.teamId \notin TeamIds
    /\ \E j \in DOMAIN listener.handled :
          bet_logs[listener.handled[j]].args.eventId \notin EventIds

(***************************************************************************)
(* C33: a call of process_bet_event for a known event and team raises the  *)
(* cap of that side, and no other, to calculate_new_market_cap(previous    *)
(* cap, net amount), leaves the other events as they were, and appends one *)
(* Bet to the bets of that user (a new user if there was none), the bets   *)
(* recorded before staying in place; the Bet records the side's cap after  *)
(* the bet as market_cap_at_bet.                                           *)
(***************************************************************************)
RecordedBet(args, cap) ==
    [event_id |-> args.eventId, team_id |-> args.teamId,
     amount |-> args.amount, tax_amount |-> args.taxAmount,
     net_bet_amount |-> args.netBetAmount, market_cap_at_bet |-> cap]

OnlyThatCapRaised(args) ==
    /\ CapOf(args.eventId, args.teamId)' =
          calculate_new_market_cap(CapOf(args.eventId, args.teamId),
                                   F(args.netBetAmount))
    /\ \A t \in TeamIds \ {args.teamId} :
          CapOf(args.eventId, t)' = CapOf(args.eventId, t)
    /\ \A e \in EventIds \ {args.eventId} : events'[e] = events[e]

OneBetAppended(args) ==
    LET i == UserIndex(args.user)
        new_bet == RecordedBet(args, CapOf(args.eventId, args.teamId)')
    IN IF i = 0
       THEN /\ Len(users') = Len(users) + 1
            /\ SubSeq(users', 1, Len(users)) = users
            /\ users'[Len(users')].address = args.user
            /\ users'[Len(users')].bets = <<new_bet>>
       ELSE users' = [users EXCEPT ![i].bets = Append(@, new_bet)]

C33_ValidBetApplied ==
    [][\A k \in DOMAIN bet_logs :
          (HandsOver(k) /\ ~UnknownIds(bet_logs[k].args))
          => /\ OnlyThatCapRaised(bet_logs[k].args)
             /\ OneBetAppended(bet_logs[k].args)]_vars

(***************************************************************************)
(* C34: once the startup has synced the events and aggregated the past,    *)
(* and whenever the listener is between two batches, each event's          *)
(* total_bet_amount is the sum of the gross amounts of the bets recorded   *)
(* for that event: no amount is counted twice and none is left out.        *)
(***************************************************************************)
\* the gross amounts of the first n bets of a list that are on the event
RECURSIVE GrossOfBets(_, _, _)
GrossOfBets(bets, n, event_id) ==
    IF n = 0 THEN 0
    ELSE GrossOfBets(bets, n - 1, event_id)
         + (IF bets[n].event_id = event_id THEN bets[n].amount ELSE 0)

\* the same over the bets of the first n users
RECURSIVE GrossRecorded(_, _)
GrossRecorded(n, event_id) ==
    IF n = 0 THEN 0
    ELSE GrossRecorded(n - 1, event_id)
         + GrossOfBets(users[n].bets, Len(users[n].bets), event_id)

BetweenBatches ==
    /\ startup.pc \in {"aggregated", "listening"}
    /\ listener.pc \in {"off", "polling"}

C34_TotalIsSumOfRecordedBets ==
    BetweenBatches =>
        \A e \in EventIds :
            events[e].total_bet_amount = GrossRecorded(Len(users), e)

(***************************************************************************)
(* C35: in the local registry an event has status "finalized" exactly when *)
(* is_resolved is true, a resolved event is not active, and an event that  *)
(* is resolved stays resolved under every later sync, listener             *)
(* notification or resolve call.                                           *)
(***************************************************************************)
FinalizedIffResolved ==
    \A e \in EventIds :
        /\ (events[e].status = "finalized") <=> events[e].is_resolved
        /\ events[e].is_resolved => ~events[e].is_active

StaysResolved ==
    \A e \in EventIds : events[e].is_resolved => events'[e].is_resolved

C35_ResolutionIsConsistent ==
    []FinalizedIffResolved /\ [][StaysResolved]_vars

(***************************************************************************)
(* C36: whenever an event is resolved locally, the contract holds a        *)
(* winning team id that is the id of one of its teams, and the local       *)
(* winner_index is that id less one, a valid index into the teams; so      *)
(* resolve_event, the EventResolved listener and the sync all record the   *)
(* same winner_index for one resolution.                                   *)
(***************************************************************************)
C36_WinnerIndexIsContractWinner ==
    \A e \in EventIds :
        events[e].is_resolved =>
            /\ chain[e].winningTeamId \in TeamIds
            /\ events[e].winner_index = chain[e].winningTeamId - 1

(***************************************************************************)
(* C37: set_rewards submits a setRewards transaction only for an event the *)
(* contract reports as resolved with a non-zero winning team id and that   *)
(* exists locally; when no event is in that condition a call returns an    *)
(* error value and submits nothing. resolve_event called for an event that *)
(* is already resolved returns an error value, resolves nothing on the     *)
(* contract and leaves the local events as they were.                      *)
(***************************************************************************)
Settleable(e) == chain[e].is_resolved /\ chain[e].winningTeamId # 0

\* the messages that helper.py returns with None in place of a hash
ErrorMessages ==
    {"Event is not resolved yet", "Winning team is not found",
     "No users found who bet on the winning team", "Event is already resolved"}

ErrorValue(outcome) == outcome.message \in ErrorMessages

SetRewardsCalled == passes' # passes

SettlementGuarded ==
    /\ rewards_tx' # rewards_tx =>
          sr.event_id \in EventIds /\ Settleable(sr.event_id)
    /\ (SetRewardsCalled /\ sr'.pc = "users") => Settleable(sr'.event_id)
    /\ (SetRewardsCalled /\ \A e \in EventIds : ~Settleable(e)) =>
          /\ sr'.pc = "idle"
          /\ ErrorValue(sr'.result)
          /\ rewards_tx' = rewards_tx

ResolveEventCalled == resolve_call' # resolve_call

ResolveGuarded ==
    (ResolveEventCalled /\ chain[resolve_call'.event_id].is_resolved) =>
        /\ ErrorValue(resolve_call'.result)
        /\ UNCHANGED <<chain, resolved_log, events>>

====
